---- MODULE Spec2Model ----
(***************************************************************************)
(* Model of src/utils.py: the TreePosition cursor (lines 27-75) and the    *)
(* per-tree statistics accumulator _compute_per_tree_stats (lines 90-144). *)
(*                                                                         *)
(* Genomic coordinates are float64 in the source; they are modelled by     *)
(* integers, on which ==, < and min are exact exactly as they are on       *)
(* integer-valued float64 values of this size.  Node times and the running *)
(* total branch length are float64 values with float64 arithmetic: every   *)
(* sum and difference is rounded to 53 significant bits, ties to even.     *)
(* Arrays keep the source's 0-based indexing: an array of length n is a    *)
(* function with domain 0..n-1.                                            *)
(***************************************************************************)
EXTENDS Integers, Sequences, FiniteSets, TLC

VARIABLES
    ts,        \* the tree sequence tables handed to the code (never written)
    travs,     \* the identities of the traversals that exist
    tree_pos,  \* tree_pos[t]: the TreePosition object of traversal t
    acc,       \* acc[t]: the locals of _compute_per_tree_stats of traversal t
    hist       \* hist[t]: history of traversal t (calls made, events applied)

vars == <<ts, travs, tree_pos, acc, hist>>

\* ------------------------------------------------------------------ bounds
MaxNodes == 4
MaxSeqLen == 3
MaxEdges == 3
ParMaxEdges == 2

\* ------------------------------------------------------------- small helpers
Min(a, b) == IF a < b THEN a ELSE b

Pair(a, b) == [i \in 0..1 |-> IF i = 0 THEN a ELSE b]

Zeros(n) == [i \in 0..(n - 1) |-> 0]

\* ------------------------------------------------------------------ float64
\* A float64 value x is the record [neg, hi, mid, lo] with
\*     |x| = (hi * 2^48 + mid * 2^24 + lo) * 2^-56,   x < 0 iff neg,
\* three limbs of 24 bits counting units of 2^-56.  These are the float64
\* values that are multiples of 2^-56 (the last place of 0.1) and below 2^23;
\* sums and differences of such values are multiples of 2^-56 again, and
\* float64 rounds them to the nearest value of 53 significant bits, ties to
\* even.  Zero is always +0.0: x - x is +0.0 in float64.
Limb == 16777216

SignificandBits == 53

FZero == [neg |-> FALSE, hi |-> 0, mid |-> 0, lo |-> 0]

FZeros(n) == [i \in 0..(n - 1) |-> FZero]

\* The float64 value of a small integer k >= 0: k * 2^56 units.
FromInt(k) == [neg |-> FALSE, hi |-> k * 256, mid |-> 0, lo |-> 0]

MagEq(a, b) == a.hi = b.hi /\ a.mid = b.mid /\ a.lo = b.lo

MagLt(a, b) ==
    \/ a.hi < b.hi
    \/ a.hi = b.hi /\ a.mid < b.mid
    \/ a.hi = b.hi /\ a.mid = b.mid /\ a.lo < b.lo

\* |a| + |b|, with the sign s.
MagAdd(s, a, b) ==
    LET lo == a.lo + b.lo
        mid == a.mid + b.mid + (lo \div Limb)
    IN  [neg |-> s, hi |-> a.hi + b.hi + (mid \div Limb),
         mid |-> mid % Limb, lo |-> lo % Limb]

\* |a| - |b| for |a| > |b|, with the sign s.
MagSub(s, a, b) ==
    LET lo == a.lo - b.lo
        bl == IF lo < 0 THEN 1 ELSE 0
        mid == a.mid - b.mid - bl
        bm == IF mid < 0 THEN 1 ELSE 0
    IN  [neg |-> s, hi |-> a.hi - b.hi - bm,
         mid |-> mid + bm * Limb, lo |-> lo + bl * Limb]

FNeg(x) == IF MagEq(x, FZero) THEN FZero ELSE [x EXCEPT !.neg = ~x.neg]

\* x + y as a real number, before rounding.
ExactAdd(x, y) ==
    IF x.neg = y.neg THEN MagAdd(x.neg, x, y)
    ELSE IF MagEq(x, y) THEN FZero
    ELSE IF MagLt(y, x) THEN MagSub(x.neg, x, y)
    ELSE MagSub(y.neg, y, x)

RECURSIVE Bits(_)
Bits(k) == IF k = 0 THEN 0 ELSE 1 + Bits(k \div 2)

\* The number of significant bits of |x|, in units of 2^-56.
BitLen(x) ==
    IF x.hi > 0 THEN 48 + Bits(x.hi)
    ELSE IF x.mid > 0 THEN 24 + Bits(x.mid)
    ELSE Bits(x.lo)

\* 2^d units, 0 <= d <= 47, with the sign s.
PowerOfTwo(s, d) ==
    IF d < 24 THEN [neg |-> s, hi |-> 0, mid |-> 0, lo |-> 2^d]
    ELSE [neg |-> s, hi |-> 0, mid |-> 2^(d - 24), lo |-> 0]

\* Round to nearest, ties to even: the d = BitLen - 53 low bits are dropped
\* and the rest goes up by one unit of the last place kept if they are above
\* half of it, or at half with an odd last bit.  Of the dropped bits dl lie
\* in lo and, for d > 24, dm in mid (d <= 26 for magnitudes below 2^23).
RoundToNearestEven(x) ==
    LET d == BitLen(x) - SignificandBits
    IN  IF d <= 0 THEN x
        ELSE LET dl == Min(d, 24)
                 dm == d - dl
                 remlo == x.lo % (2^dl)
                 remmid == x.mid % (2^dm)
                 above == IF dm = 0 THEN remlo > 2^(dl - 1)
                          ELSE remmid > 2^(dm - 1)
                                 \/ (remmid = 2^(dm - 1) /\ x.lo > 0)
                 tie == IF dm = 0 THEN remlo = 2^(dl - 1)
                        ELSE remmid = 2^(dm - 1) /\ x.lo = 0
                 odd == IF d < 24 THEN (x.lo \div (2^d)) % 2 = 1
                                  ELSE (x.mid \div (2^dm)) % 2 = 1
                 down == [x EXCEPT !.lo = @ - remlo, !.mid = @ - remmid]
             IN  IF above \/ (tie /\ odd)
                 THEN MagAdd(x.neg, down, PowerOfTwo(x.neg, d))
                 ELSE down

\* The element of a set of one element.
The(S) == CHOOSE v \in S : TRUE

\* x + y and x - y of float64: the operands are evaluated, the exact result
\* is formed, and it is rounded once.
FAdd(x, y) ==
    The({ RoundToNearestEven(s) : s \in { ExactAdd(a, b) : a \in {x}, b \in {y} } })

FSub(x, y) ==
    The({ RoundToNearestEven(s) : s \in { ExactAdd(a, FNeg(b)) : a \in {x}, b \in {y} } })

\* x < y of float64.
FLt(x, y) ==
    IF x.neg /\ ~y.neg THEN TRUE
    ELSE IF ~x.neg /\ y.neg THEN FALSE
    ELSE IF x.neg THEN MagLt(y, x)
    ELSE MagLt(x, y)

\* ----------------------------------------------------- well-formed tables
Nodes == 0..(MaxNodes - 1)

\* The float64 values of the literals 0.0, 0.1, ..., 0.7 (float.hex gives
\* 0x1.999999999999ap-4 for 0.1, 0x1.3333333333333p-2 for 0.3, and so on).
Tenths ==
    << [neg |-> FALSE, hi |-> 0, mid |-> 0, lo |-> 0],
       [neg |-> FALSE, hi |-> 25, mid |-> 10066329, lo |-> 10066330],
       [neg |-> FALSE, hi |-> 51, mid |-> 3355443, lo |-> 3355444],
       [neg |-> FALSE, hi |-> 76, mid |-> 13421772, lo |-> 13421772],
       [neg |-> FALSE, hi |-> 102, mid |-> 6710886, lo |-> 6710888],
       [neg |-> FALSE, hi |-> 128, mid |-> 0, lo |-> 0],
       [neg |-> FALSE, hi |-> 153, mid |-> 10066329, lo |-> 10066328],
       [neg |-> FALSE, hi |-> 179, mid |-> 3355443, lo |-> 3355440] >>

\* Node times: one table of integer times increasing in the node id, one of
\* decimal fractions decreasing in it, so that parents are found above and
\* below their children's ids and sums of branch lengths are exact in one
\* table and rounded in the other.
TimeVectors ==
    { [n \in Nodes |-> FromInt((n * (n + 3)) \div 2)],
      [n \in Nodes |-> Tenths[MaxNodes - n]] }

\* An edge row: left < right within [0, L], time[parent] > time[child].
EdgeCandidates(L, time) ==
    { r \in [left : 0..L, right : 0..L, parent : Nodes, child : Nodes] :
        r.left < r.right /\ FLt(time[r.child], time[r.parent]) }

\* The number of nodes younger than n.
TimeRank(time, n) == Cardinality({ m \in Nodes : FLt(time[m], time[n]) })

\* Rows of an edge table are kept in the order (time[parent], parent, child,
\* left, right), as tskit requires of the tables it hands out.
RowKey(r, time) ==
    ((((TimeRank(time, r.parent) * MaxNodes + r.parent) * MaxNodes + r.child)
        * (MaxSeqLen + 2) + r.left) * (MaxSeqLen + 2)) + r.right

\* A child has at most one parent at any position.
RowsCompatible(a, b) ==
    a.child # b.child \/ a.right <= b.left \/ b.right <= a.left

RECURSIVE EdgeRows(_, _, _)
EdgeRows(C, time, n) ==
    IF n = 0 THEN { << >> }
    ELSE LET prev == EdgeRows(C, time, n - 1)
             full == { s \in prev : Len(s) = n - 1 }
         IN  prev \cup
             { Append(sc[1], sc[2]) :
                 sc \in { x \in full \X C :
                            /\ \A i \in 1..Len(x[1]) : RowsCompatible(x[1][i], x[2])
                            /\ Len(x[1]) > 0 =>
                                 RowKey(x[1][Len(x[1])], time) < RowKey(x[2], time) } }

\* The permutations of 0..n-1 that visit non-decreasing values of key.
SortedPerms(n, key) ==
    { f \in [0..(n - 1) -> 0..(n - 1)] :
        /\ \A i, j \in 0..(n - 1) : i # j => f[i] # f[j]
        /\ \A i, j \in 0..(n - 1) : i < j => key[f[i]] <= key[f[j]] }

\* The distinct coordinates at which a local tree starts or ends.
Breakpoints(L, lefts, rights) ==
    {0, L} \cup { lefts[e] : e \in DOMAIN lefts } \cup { rights[e] : e \in DOMAIN rights }

MkTable(L, time, rows, io, ro) ==
    LET M == Len(rows)
        lefts == [e \in 0..(M - 1) |-> rows[e + 1].left]
        rights == [e \in 0..(M - 1) |-> rows[e + 1].right]
    IN  [ num_edges |-> M,
          num_nodes |-> MaxNodes,
          num_trees |-> Cardinality(Breakpoints(L, lefts, rights)) - 1,
          sequence_length |-> L,
          edges_left |-> lefts,
          edges_right |-> rights,
          edges_parent |-> [e \in 0..(M - 1) |-> rows[e + 1].parent],
          edges_child |-> [e \in 0..(M - 1) |-> rows[e + 1].child],
          nodes_time |-> time,
          indexes_edge_insertion_order |-> io,
          indexes_edge_removal_order |-> ro ]

\* ts is a well-formed table of at most n edges.
WellFormedTable(n) ==
    \E L \in 1..MaxSeqLen, time \in TimeVectors :
      \E rows \in EdgeRows(EdgeCandidates(L, time), time, n) :
        \E io \in SortedPerms(Len(rows), [e \in 0..(Len(rows) - 1) |-> rows[e + 1].left]),
           ro \in SortedPerms(Len(rows), [e \in 0..(Len(rows) - 1) |-> rows[e + 1].right]) :
          ts = MkTable(L, time, rows, io, ro)

\* ------------------------------------------------------------ TreePosition
\* TreePosition.__init__
TreePositionInit ==
    [ edge_insertion_index |-> 0,
      edge_removal_index |-> 0,
      interval |-> Pair(0, 0),
      in_range |-> Pair(0, 0),
      out_range |-> Pair(0, 0) ]

\* Mutant of ScanOut: the removal scan compares the edges' left coordinate.
RECURSIVE ScanOutByLeft(_, _, _)
ScanOutByLeft(t, k, left) ==
    IF k < t.num_edges /\ t.edges_left[t.indexes_edge_removal_order[k]] = left
    THEN ScanOutByLeft(t, k + 1, left)
    ELSE k

\* while k < M and edges_right[out_order[k]] == left: k += 1
RECURSIVE ScanOut(_, _, _)
ScanOut(t, k, left) ==
    IF k < t.num_edges /\ t.edges_right[t.indexes_edge_removal_order[k]] = left
    THEN ScanOut(t, k + 1, left)
    ELSE k

\* Mutant of ScanIn: an if in place of the while, at most one edge enters.
ScanInOnce(t, j, left) ==
    IF j < t.num_edges /\ t.edges_left[t.indexes_edge_insertion_order[j]] = left
    THEN j + 1
    ELSE j

\* while j < M and edges_left[in_order[j]] == left: j += 1
RECURSIVE ScanIn(_, _, _)
ScanIn(t, j, left) ==
    IF j < t.num_edges /\ t.edges_left[t.indexes_edge_insertion_order[j]] = left
    THEN ScanIn(t, j + 1, left)
    ELSE j

\* Mutant of NewRange: the assignment range[0] = old end is left out.
NewRangeStaleStart(range, end) == Pair(range[0], end)

\* j = range[1]; range[0] = j; ...; range[1] = the advanced j: the positions
\* consumed by this call.
NewRange(range, end) == Pair(range[1], end)

\* Mutant of NextRight: the right of the next edge to remove is not looked at.
NextRightNoRemoval(t, j, k) ==
    IF j < t.num_edges
    THEN Min(t.sequence_length, t.edges_left[t.indexes_edge_insertion_order[j]])
    ELSE t.sequence_length

\* The right end of the new interval: sequence_length, lowered to the left of
\* the next edge to insert and to the right of the next edge to remove.
NextRight(t, j, k) ==
    LET M == t.num_edges
        r0 == t.sequence_length
        r1 == IF j < M
              THEN Min(r0, t.edges_left[t.indexes_edge_insertion_order[j]])
              ELSE r0
    IN  IF k < M
        THEN Min(r1, t.edges_right[t.indexes_edge_removal_order[k]])
        ELSE r1

\* Mutant of NextReturns: the test of the left boundary is left out.
NextReturnsEdgesOnly(t, j, left) == j < t.num_edges

\* Mutant of NextReturns: the cursor never reports the end.
NextReturnsAlways(t, j, left) == TRUE

\* return j < M or left < self.sequence_length
NextReturns(t, j, left) == j < t.num_edges \/ left < t.sequence_length

\* TreePosition.next: the object after the call and the value returned.
TreePositionNext(t, tp) ==
    LET left == tp.interval[1]
        j0 == tp.in_range[1]
        k0 == tp.out_range[1]
        M == t.num_edges
        k == ScanOut(t, k0, left)
        j == ScanIn(t, j0, left)
        right == NextRight(t, j, k)
    IN  [ obj |-> [ tp EXCEPT !.in_range = NewRange(tp.in_range, j),
                              !.out_range = NewRange(tp.out_range, k),
                              !.interval = Pair(left, right) ],
          ret |-> NextReturns(t, j, left) ]

\* ------------------------------------------------- _compute_per_tree_stats
\* The locals of _compute_per_tree_stats before its while loop.  pc is the
\* position in the function; j is the loop variable of both for loops.
AccInit(t) ==
    [ tbl |-> FZeros(t.num_trees),
      num_internal_nodes |-> Zeros(t.num_trees),
      max_arity |-> Zeros(t.num_trees),
      num_children |-> Zeros(t.num_nodes),
      nodes_with_arity |-> Zeros(t.num_nodes),
      current_tbl |-> FZero,
      tree_index |-> 0,
      current_num_internal_nodes |-> 0,
      current_max_arity |-> 0,
      j |-> 0,
      fault |-> FALSE,
      pc |-> "next" ]

\* An index that is outside the array it is used on.  The compiled loops do
\* no bounds check; fault records that such an index was used.  (A negative
\* index would wrap around in the source; no traversal of a well-formed table
\* produces one.)
OutOfBounds(arr, i) == i \notin DOMAIN arr

\* for j in range(in_range[0], in_range[1]): the first iteration, or past the loop.
EnterInsertions(tp, a) ==
    IF tp.in_range[0] < tp.in_range[1]
    THEN [a EXCEPT !.pc = "in", !.j = tp.in_range[0]]
    ELSE [a EXCEPT !.pc = "emit"]

\* Mutant of EnterRemovals: the removal loop left out of the while body.
EnterRemovalsSkipped(tp, a) == EnterInsertions(tp, a)

\* for j in range(out_range[0], out_range[1]): the first iteration, or past the loop.
EnterRemovals(tp, a) ==
    IF tp.out_range[0] < tp.out_range[1]
    THEN [a EXCEPT !.pc = "out", !.j = tp.out_range[0]]
    ELSE EnterInsertions(tp, a)

\* while tree_pos.next(): the call, then into the body or out of the loop.
WhileNext(t, tp, a) ==
    LET r == TreePositionNext(t, tp)
    IN  [ obj |-> r.obj,
          ret |-> r.ret,
          acc |-> IF r.ret THEN EnterRemovals(r.obj, a) ELSE [a EXCEPT !.pc = "done"] ]

\* Mutant of BranchLength: the operands of the subtraction exchanged.
BranchLengthSwapped(t, p, c) == FSub(t.nodes_time[c], t.nodes_time[p])

\* branch_length = nodes_time[p] - nodes_time[c]
BranchLength(t, p, c) == FSub(t.nodes_time[p], t.nodes_time[c])

\* The test that guards current_max_arity -= 1 in the removal loop; nwa is
\* nodes_with_arity after the decrement of line 108.
MaxArityDrops(a, p, nwa) ==
    /\ a.num_children[p] = a.current_max_arity
    /\ nwa[a.num_children[p]] = 1

\* Mutant of BecomesLeaf: the node is re-bucketed even at arity 0.
BecomesLeafNever(nc, p) == FALSE

\* if num_children[p] == 0, in the removal loop: p has lost its last child.
BecomesLeaf(nc, p) == nc[p] = 0

\* One iteration of the removal loop, for the edge at removal position a.j.
RemoveEdge(t, tp, a) ==
    LET e == t.indexes_edge_removal_order[a.j]
        p == t.edges_parent[e]
        c == t.edges_child[e]
        nc == a.num_children
        nwa1 == [a.nodes_with_arity EXCEPT ![nc[p]] = @ - 1]
        cma1 == IF MaxArityDrops(a, p, nwa1)
                THEN a.current_max_arity - 1
                ELSE a.current_max_arity
        nc1 == [nc EXCEPT ![p] = @ - 1]
        nin1 == IF BecomesLeaf(nc1, p)
                THEN a.current_num_internal_nodes - 1
                ELSE a.current_num_internal_nodes
        nwa2 == IF BecomesLeaf(nc1, p)
                THEN nwa1
                ELSE [nwa1 EXCEPT ![nc1[p]] = @ + 1]
        branch_length == BranchLength(t, p, c)
        b == [a EXCEPT !.nodes_with_arity = nwa2,
                       !.current_max_arity = cma1,
                       !.num_children = nc1,
                       !.current_num_internal_nodes = nin1,
                       !.current_tbl = FSub(@, branch_length),
                       !.fault = @ \/ OutOfBounds(a.nodes_with_arity, nc[p])
                                   \/ (nc1[p] # 0 /\ OutOfBounds(nwa1, nc1[p]))]
    IN  IF a.j + 1 < tp.out_range[1]
        THEN [b EXCEPT !.j = a.j + 1]
        ELSE EnterInsertions(tp, b)

\* Mutant of BecomesInternal: every inserted edge counts a new internal node.
BecomesInternalAlways(nc, p) == TRUE

\* if num_children[p] == 0, in the insertion loop: p is a leaf about to get
\* its first child.
BecomesInternal(nc, p) == nc[p] = 0

\* One iteration of the insertion loop, for the edge at insertion position a.j.
InsertEdge(t, tp, a) ==
    LET e == t.indexes_edge_insertion_order[a.j]
        p == t.edges_parent[e]
        c == t.edges_child[e]
        nc == a.num_children
        nin1 == IF BecomesInternal(nc, p)
                THEN a.current_num_internal_nodes + 1
                ELSE a.current_num_internal_nodes
        nwa1 == IF BecomesInternal(nc, p)
                THEN a.nodes_with_arity
                ELSE [a.nodes_with_arity EXCEPT ![nc[p]] = @ - 1]
        nc1 == [nc EXCEPT ![p] = @ + 1]
        nwa2 == [nwa1 EXCEPT ![nc1[p]] = @ + 1]
        cma1 == IF nc1[p] > a.current_max_arity
                THEN nc1[p]
                ELSE a.current_max_arity
        branch_length == BranchLength(t, p, c)
        b == [a EXCEPT !.nodes_with_arity = nwa2,
                       !.current_max_arity = cma1,
                       !.num_children = nc1,
                       !.current_num_internal_nodes = nin1,
                       !.current_tbl = FAdd(@, branch_length),
                       !.fault = @ \/ (nc[p] # 0 /\ OutOfBounds(a.nodes_with_arity, nc[p]))
                                   \/ OutOfBounds(nwa1, nc1[p])]
    IN  IF a.j + 1 < tp.in_range[1]
        THEN [b EXCEPT !.j = a.j + 1]
        ELSE [b EXCEPT !.pc = "emit"]

\* The end of the while body: the three outputs of the tree, tree_index += 1.
EmitTree(a) ==
    [a EXCEPT !.tbl = [@ EXCEPT ![a.tree_index] = a.current_tbl],
              !.num_internal_nodes =
                  [@ EXCEPT ![a.tree_index] = a.current_num_internal_nodes],
              !.max_arity = [@ EXCEPT ![a.tree_index] = a.current_max_arity],
              !.tree_index = @ + 1,
              !.fault = @ \/ OutOfBounds(a.tbl, a.tree_index),
              !.pc = "next"]

\* return tbl, num_internal_nodes, max_arity
Outputs(a) ==
    [tbl |-> a.tbl, num_internal_nodes |-> a.num_internal_nodes, max_arity |-> a.max_arity]

\* One step of one traversal, as a function of its own state only.
TraversalStep(t, s) ==
    IF s.acc.pc = "next"
    THEN LET w == WhileNext(t, s.obj, s.acc) IN [obj |-> w.obj, acc |-> w.acc]
    ELSE IF s.acc.pc = "out"
    THEN [obj |-> s.obj, acc |-> RemoveEdge(t, s.obj, s.acc)]
    ELSE IF s.acc.pc = "in"
    THEN [obj |-> s.obj, acc |-> InsertEdge(t, s.obj, s.acc)]
    ELSE IF s.acc.pc = "emit"
    THEN [obj |-> s.obj, acc |-> EmitTree(s.acc)]
    ELSE s

\* compute_per_tree_stats(ts), run alone from a fresh cursor to its return.
RECURSIVE RunFrom(_, _)
RunFrom(t, s) == IF s.acc.pc = "done" THEN s ELSE RunFrom(t, TraversalStep(t, s))

ComputePerTreeStats(t) ==
    Outputs(RunFrom(t, [obj |-> TreePositionInit, acc |-> AccInit(t)]).acc)

\* ----------------------------------------------------------------- history
HistInit == [calls |-> << >>, events |-> << >>]

\* A next() call as the caller sees it.
CallRecord(w) ==
    [ret |-> w.ret, interval |-> w.obj.interval,
     in_range |-> w.obj.in_range, out_range |-> w.obj.out_range]

\* An edge event: kind "out" or "in", the position in the order permutation,
\* the edge, the number of the next() call whose ranges it comes from, and
\* the running total branch length once the event is applied.
EventRecord(kind, pos, e, h, total) ==
    [kind |-> kind, pos |-> pos, edge |-> e, call |-> Len(h.calls), total |-> total]

\* ----------------------------------------------------------------- actions
CallNext(tr) ==
    /\ acc[tr].pc = "next"
    /\ LET w == WhileNext(ts, tree_pos[tr], acc[tr])
       IN  /\ tree_pos' = [tree_pos EXCEPT ![tr] = w.obj]
           /\ acc' = [acc EXCEPT ![tr] = w.acc]
           /\ hist' = [hist EXCEPT ![tr].calls = Append(@, CallRecord(w))]
    /\ UNCHANGED <<ts, travs>>

Removal(tr) ==
    /\ acc[tr].pc = "out"
    /\ LET b == RemoveEdge(ts, tree_pos[tr], acc[tr])
       IN  /\ acc' = [acc EXCEPT ![tr] = b]
           /\ hist' = [hist EXCEPT ![tr].events =
                          Append(@, EventRecord("out", acc[tr].j,
                                                ts.indexes_edge_removal_order[acc[tr].j],
                                                hist[tr], b.current_tbl))]
    /\ UNCHANGED <<ts, travs, tree_pos>>

\* Mutant of Insertion: current_tbl is one process-wide variable, shared by
\* all traversals, instead of a local of each call.
InsertionSharedTbl(tr) ==
    /\ acc[tr].pc = "in"
    /\ LET g == CHOOSE x \in travs : \A y \in travs : x <= y
           b == InsertEdge(ts, tree_pos[tr],
                           [acc[tr] EXCEPT !.current_tbl = acc[g].current_tbl])
       IN  /\ acc' = [acc EXCEPT ![tr] = b, ![g].current_tbl = b.current_tbl]
           /\ hist' = [hist EXCEPT ![tr].events =
                          Append(@, EventRecord("in", acc[tr].j,
                                                ts.indexes_edge_insertion_order[acc[tr].j],
                                                hist[tr], b.current_tbl))]
    /\ UNCHANGED <<ts, travs, tree_pos>>

Insertion(tr) ==
    /\ acc[tr].pc = "in"
    /\ LET b == InsertEdge(ts, tree_pos[tr], acc[tr])
       IN  /\ acc' = [acc EXCEPT ![tr] = b]
           /\ hist' = [hist EXCEPT ![tr].events =
                          Append(@, EventRecord("in", acc[tr].j,
                                                ts.indexes_edge_insertion_order[acc[tr].j],
                                                hist[tr], b.current_tbl))]
    /\ UNCHANGED <<ts, travs, tree_pos>>

Emission(tr) ==
    /\ acc[tr].pc = "emit"
    /\ acc' = [acc EXCEPT ![tr] = EmitTree(acc[tr])]
    /\ UNCHANGED <<ts, travs, tree_pos, hist>>

Fresh(T) ==
    /\ travs = T
    /\ tree_pos = [tr \in T |-> TreePositionInit]
    /\ acc = [tr \in T |-> AccInit(ts)]
    /\ hist = [tr \in T |-> HistInit]

\* One traversal of any well-formed table of at most MaxEdges edges.
Init ==
    /\ WellFormedTable(MaxEdges)
    /\ Fresh({1})

\* Two traversals of one shared table, each with its own cursor and arrays.
InitPar ==
    /\ WellFormedTable(ParMaxEdges)
    /\ Fresh({1, 2})

Next ==
    \/ \E tr \in travs : CallNext(tr)
    \/ \E tr \in travs : Removal(tr)
    \/ \E tr \in travs : Insertion(tr)
    \/ \E tr \in travs : Emission(tr)

Spec == Init /\ [][Next]_vars

SpecPar == InitPar /\ [][Next]_vars

\* The call runs on: no suspension, blocking or cancellation stops the loops
\* of _compute_per_tree_stats while a step is left to take.
SpecFair == Init /\ [][Next]_vars /\ WF_vars(Next)

\* ------------------------------------------- local trees, from scratch
Edges == 0..(ts.num_edges - 1)

\* The trees traversal tr has emitted so far, and the interval of each: tree
\* i is the one set up by the (i+1)-th next() call.
Emitted(tr) == 0..(acc[tr].tree_index - 1)

TreeInterval(tr, i) == hist[tr].calls[i + 1].interval

\* The edges whose interval covers iv.
ActiveEdges(iv) ==
    { e \in Edges : ts.edges_left[e] <= iv[0] /\ ts.edges_right[e] >= iv[1] }

OutDegree(E, n) == Cardinality({ e \in E : ts.edges_parent[e] = n })

\* time[parent] - time[child] of edge e, in float64.
EdgeLength(e) == FSub(ts.nodes_time[ts.edges_parent[e]], ts.nodes_time[ts.edges_child[e]])

\* The branch length of the edges of E from scratch: a float64 total, from
\* 0.0, to which the length of each edge of E is added.  A float64 sum
\* depends on the order of its terms; these are the totals of all orders.
RECURSIVE ScratchFrom(_, _)
ScratchFrom(E, total) ==
    IF E = {} THEN {total}
    ELSE UNION { ScratchFrom(E \ {e}, FAdd(total, EdgeLength(e))) : e \in E }

ScratchTbl(E) == ScratchFrom(E, FZero)

\* The same sum as a real number, without rounding.
RECURSIVE ExactFrom(_, _, _)
ExactFrom(E, e, total) ==
    IF e >= ts.num_edges THEN total
    ELSE ExactFrom(E, e + 1, IF e \in E THEN ExactAdd(total, EdgeLength(e)) ELSE total)

ExactTbl(E) == ExactFrom(E, 0, FZero)

\* |x - y| as a real number.
Distance(x, y) == [ExactAdd(x, FNeg(y)) EXCEPT !.neg = FALSE]

\* Half a unit in the last place of the float64 value x, the most by which
\* rounding to x moves a sum; nothing where x has bits to spare.
HalfUlp(x) ==
    IF BitLen(x) <= SignificandBits THEN FZero
    ELSE PowerOfTwo(FALSE, BitLen(x) - SignificandBits - 1)

\* The edge events of traversal tr applied up to the emission of tree i.
EventsUpTo(tr, i) ==
    { x \in 1..Len(hist[tr].events) : hist[tr].events[x].call <= i + 1 }

\* The rounding allowance of tree i: half a unit in the last place of the
\* running total after each edge event applied so far, summed.
RECURSIVE Allowance(_, _)
Allowance(tr, X) ==
    IF X = {} THEN FZero
    ELSE LET x == CHOOSE y \in X : TRUE
         IN  ExactAdd(HalfUlp(hist[tr].events[x].total), Allowance(tr, X \ {x}))

\* Every node time is a whole number.
IntegerTimes ==
    \A n \in 0..(ts.num_nodes - 1) :
        LET x == ts.nodes_time[n] IN x.lo = 0 /\ x.mid = 0 /\ x.hi % 256 = 0

ScratchInternal(E) == Cardinality({ ts.edges_parent[e] : e \in E })

ScratchMaxArity(E) ==
    CHOOSE m \in 0..Cardinality(E) :
        /\ \A n \in 0..(ts.num_nodes - 1) : OutDegree(E, n) <= m
        /\ m > 0 => \E n \in 0..(ts.num_nodes - 1) : OutDegree(E, n) = m

\* -------------------------------------------------------------------- C1
\* C1 (as claimed): the max_arity emitted for every tree equals the largest
\* out-degree recomputed from the edges active over the tree; for one node
\* with three child edges of spans [0,1), [0,2), [0,3) the sequence is 3, 2, 1.
C1_MaxArityFromScratch ==
    \A tr \in travs : \A i \in Emitted(tr) :
        acc[tr].max_arity[i] = ScratchMaxArity(ActiveEdges(TreeInterval(tr, i)))

\* -------------------------------------------------------------------- C2
\* The table of one edge (0, L, p, c) with time[p] = 5 and time[c] = 2.
SingleEdge52 ==
    /\ ts.num_edges = 1
    /\ ts.edges_left[0] = 0
    /\ ts.edges_right[0] = ts.sequence_length
    /\ ts.nodes_time[ts.edges_parent[0]] = FromInt(5)
    /\ ts.nodes_time[ts.edges_child[0]] = FromInt(2)

\* The single edge (0, L, p, c) with times 5 and 2 gives exactly one tree,
\* with total_branch_length 3, num_internal_nodes 1 and max_arity 1.
SingleEdgeOutputs(tr) ==
    (SingleEdge52 /\ acc[tr].pc = "done") =>
        /\ acc[tr].tree_index = 1
        /\ acc[tr].tbl = [i \in 0..0 |-> FromInt(3)]
        /\ acc[tr].num_internal_nodes = [i \in 0..0 |-> 1]
        /\ acc[tr].max_arity = [i \in 0..0 |-> 1]

C3_InternalNodes ==
    \A tr \in travs :
        /\ \A i \in Emitted(tr) :
             acc[tr].num_internal_nodes[i] =
                 ScratchInternal(ActiveEdges(TreeInterval(tr, i)))
        /\ acc[tr].pc = "emit" =>
             \A n \in 0..(ts.num_nodes - 1) :
                 acc[tr].num_children[n] =
                     OutDegree(ActiveEdges(tree_pos[tr].interval), n)

\* The second tree is about to be emitted: one parent lost a child and kept
\* another, a different node became a parent.
C3_Witness ==
    /\ acc[1].pc = "emit"
    /\ acc[1].tree_index = 1
    /\ acc[1].num_internal_nodes[0] = 1
    /\ acc[1].current_num_internal_nodes = 2
    /\ \E n \in 0..(ts.num_nodes - 1) :
         /\ acc[1].num_children[n] = 1
         /\ OutDegree(ActiveEdges(TreeInterval(1, 0)), n) = 2

\* -------------------------------------------------------------------- C4
Calls(tr) == 1..Len(hist[tr].calls)

\* The next() calls of tr whose in_range (out_range) covers position q.
InCover(tr, q) ==
    { c \in Calls(tr) : hist[tr].calls[c].in_range[0] <= q
                        /\ q < hist[tr].calls[c].in_range[1] }

OutCover(tr, q) ==
    { c \in Calls(tr) : hist[tr].calls[c].out_range[0] <= q
                        /\ q < hist[tr].calls[c].out_range[1] }

\* C4: over the next() calls of a traversal up to and including the first
\* that returns false, every edge is at exactly one position covered by an
\* in_range and at exactly one position covered by an out_range; no position
\* is ever covered twice, and at the end none has been skipped.
C4_EdgeCoverage ==
    \A tr \in travs :
        /\ \A q \in Edges : Cardinality(InCover(tr, q)) <= 1
                            /\ Cardinality(OutCover(tr, q)) <= 1
        /\ acc[tr].pc = "done" =>
             \A e \in Edges :
                /\ Cardinality({ cq \in Calls(tr) \X Edges :
                       /\ ts.indexes_edge_insertion_order[cq[2]] = e
                       /\ cq[1] \in InCover(tr, cq[2]) }) = 1
                /\ Cardinality({ cq \in Calls(tr) \X Edges :
                       /\ ts.indexes_edge_removal_order[cq[2]] = e
                       /\ cq[1] \in OutCover(tr, cq[2]) }) = 1

\* A finished traversal of three edges in which one call both removed and
\* inserted edges and the last call, the one returning false, covers a removal.
C4_Witness ==
    /\ acc[1].pc = "done"
    /\ ts.num_edges = 3
    /\ \E c \in Calls(1) :
         /\ hist[1].calls[c].ret
         /\ hist[1].calls[c].out_range[0] < hist[1].calls[c].out_range[1]
         /\ hist[1].calls[c].in_range[0] < hist[1].calls[c].in_range[1]
    /\ LET last == hist[1].calls[Len(hist[1].calls)]
       IN  ~last.ret /\ last.out_range[0] < last.out_range[1]

\* -------------------------------------------------------------------- C5
TrueCalls(tr) == Cardinality({ c \in Calls(tr) : hist[tr].calls[c].ret })

\* The distinct values among the edges' left and right coordinates.
EdgeCoordinates ==
    { ts.edges_left[e] : e \in Edges } \cup { ts.edges_right[e] : e \in Edges }

\* C5 (as claimed): the number of next() calls returning true equals the
\* number of distinct values in the union of the edges' left and right
\* values, restricted to [0, sequence_length] (read as closed, or as open at
\* sequence_length).
C5_TreeCountAsClaimed ==
    \A tr \in travs :
        acc[tr].pc = "done" =>
            \/ TrueCalls(tr) = Cardinality(EdgeCoordinates)
            \/ TrueCalls(tr) = Cardinality(EdgeCoordinates \ {ts.sequence_length})

\* C5 (amended): the number of next() calls returning true is one less than
\* the number of distinct values among 0, sequence_length and the edges' left
\* and right values: the number of gaps between consecutive breakpoints.
C5_TreeCount ==
    \A tr \in travs :
        acc[tr].pc = "done" =>
            TrueCalls(tr) =
                Cardinality({0, ts.sequence_length} \cup EdgeCoordinates) - 1

\* A finished traversal of two edges that gave three trees.
C5_Witness ==
    /\ acc[1].pc = "done"
    /\ ts.num_edges = 2
    /\ TrueCalls(1) = 3

\* -------------------------------------------------------------------- C6
\* C6: the intervals of the true-returning calls tile the genome: the first
\* starts at 0, each later one starts where the one before ended, each ends
\* at the least of sequence_length, the left of the next edge not yet
\* inserted and the right of the next edge not yet removed, and the last one
\* ends at sequence_length.
C6_IntervalTiling ==
    \A tr \in travs :
        LET cs == hist[tr].calls
            M == ts.num_edges
        IN  /\ \A c \in Calls(tr) : cs[c].ret =>
                 /\ c = 1 => cs[c].interval[0] = 0
                 /\ c > 1 => cs[c].interval[0] = cs[c - 1].interval[1]
                 /\ cs[c].interval[1] <= ts.sequence_length
                 /\ cs[c].in_range[1] < M =>
                      cs[c].interval[1] <=
                        ts.edges_left[ts.indexes_edge_insertion_order[cs[c].in_range[1]]]
                 /\ cs[c].out_range[1] < M =>
                      cs[c].interval[1] <=
                        ts.edges_right[ts.indexes_edge_removal_order[cs[c].out_range[1]]]
                 /\ \/ cs[c].interval[1] = ts.sequence_length
                    \/ /\ cs[c].in_range[1] < M
                       /\ cs[c].interval[1] =
                            ts.edges_left[ts.indexes_edge_insertion_order[cs[c].in_range[1]]]
                    \/ /\ cs[c].out_range[1] < M
                       /\ cs[c].interval[1] =
                            ts.edges_right[ts.indexes_edge_removal_order[cs[c].out_range[1]]]
            /\ acc[tr].pc = "done" =>
                 /\ Len(cs) >= 2
                 /\ ~cs[Len(cs)].ret
                 /\ cs[Len(cs) - 1].ret
                 /\ cs[Len(cs) - 1].interval[1] = ts.sequence_length

\* A finished traversal of three intervals: the first ends at the right of an
\* edge to remove, the second at the left of an edge to insert.
C6_Witness ==
    /\ acc[1].pc = "done"
    /\ TrueCalls(1) = 3
    /\ LET cs == hist[1].calls
       IN  /\ cs[1].out_range[1] < ts.num_edges
           /\ cs[1].interval[1] =
                ts.edges_right[ts.indexes_edge_removal_order[cs[1].out_range[1]]]
           /\ cs[1].in_range[1] < ts.num_edges =>
                cs[1].interval[1] <
                  ts.edges_left[ts.indexes_edge_insertion_order[cs[1].in_range[1]]]
           /\ cs[2].in_range[1] < ts.num_edges
           /\ cs[2].interval[1] =
                ts.edges_left[ts.indexes_edge_insertion_order[cs[2].in_range[1]]]
           /\ cs[2].interval[1] < ts.sequence_length

\* -------------------------------------------------------------------- C7
\* C7 (as claimed): every emitted tree over whose interval no edge is active
\* has total_branch_length 0, num_internal_nodes 0 and max_arity 0.
C7_EdgeFreeTreesAllZero ==
    \A tr \in travs : \A i \in Emitted(tr) :
        ActiveEdges(TreeInterval(tr, i)) = {} =>
            /\ acc[tr].tbl[i] = FZero
            /\ acc[tr].num_internal_nodes[i] = 0
            /\ acc[tr].max_arity[i] = 0

\* -------------------------------------------------------------------- C8
\* C8: two traversals of one table, each with its own cursor and its own
\* arrays, interleaved step by step in any order, each emit tree by tree what
\* a traversal run alone emits and return the same outputs; no step of either
\* writes the table, the order permutations or the node times.
C8_IndependentTraversals ==
    /\ [](\A tr \in travs :
            LET alone == ComputePerTreeStats(ts)
            IN  /\ \A i \in Emitted(tr) :
                     /\ acc[tr].tbl[i] = alone.tbl[i]
                     /\ acc[tr].num_internal_nodes[i] = alone.num_internal_nodes[i]
                     /\ acc[tr].max_arity[i] = alone.max_arity[i]
                /\ acc[tr].pc = "done" => Outputs(acc[tr]) = alone
                /\ \A other \in travs :
                     (acc[tr].pc = "done" /\ acc[other].pc = "done") =>
                         Outputs(acc[tr]) = Outputs(acc[other]))
    /\ [][ts' = ts]_vars

\* Both traversals are inside the second tree, one past its removals and one
\* not, after emitting the same non-zero first tree.
C8_Witness ==
    /\ travs = {1, 2}
    /\ acc[1].pc = "in" /\ acc[1].tree_index = 1
    /\ acc[2].pc = "out" /\ acc[2].tree_index = 1
    /\ acc[1].tbl[0] = acc[2].tbl[0]
    /\ FLt(FZero, acc[1].tbl[0])
    /\ FLt(acc[1].current_tbl, acc[2].current_tbl)

\* -------------------------------------------------------------------- C9
\* C9 (as claimed): a removal of an edge with parent p lowers the running
\* max arity by 1 exactly when p's out-degree before the removal equals the
\* running max arity and the histogram bucket of that arity is 0 once p has
\* been taken out of it; every other removal leaves the running max arity as
\* it was.
C9_MaxArityDecrement ==
    [][\A tr \in travs :
         (acc[tr].pc = "out" /\ acc'[tr] # acc[tr]) =>
            LET p == ts.edges_parent[ts.indexes_edge_removal_order[acc[tr].j]]
                d == acc[tr].num_children[p]
                emptied == /\ d = acc[tr].current_max_arity
                           /\ acc[tr].nodes_with_arity[d] - 1 = 0
            IN  acc'[tr].current_max_arity =
                    IF emptied THEN acc[tr].current_max_arity - 1
                               ELSE acc[tr].current_max_arity]_vars

\* ------------------------------------------------------------------- C10
InsertedEdges(tr) ==
    { hist[tr].events[i].edge :
        i \in { x \in 1..Len(hist[tr].events) : hist[tr].events[x].kind = "in" } }

RemovedEdges(tr) ==
    { hist[tr].events[i].edge :
        i \in { x \in 1..Len(hist[tr].events) : hist[tr].events[x].kind = "out" } }

\* The edges that reach the end of the genome.
EdgesToEnd == { e \in Edges : ts.edges_right[e] = ts.sequence_length }

\* C10 (as claimed): every edge the loop applied as an insertion it has also
\* applied as a removal when the function returns, so that num_children is 0
\* for every node and the running branch length and internal-node count are 0.
C10_AllRemovedAsClaimed ==
    \A tr \in travs :
        acc[tr].pc = "done" =>
            /\ InsertedEdges(tr) \subseteq RemovedEdges(tr)
            /\ \A n \in 0..(ts.num_nodes - 1) : acc[tr].num_children[n] = 0
            /\ acc[tr].current_tbl = FZero
            /\ acc[tr].current_num_internal_nodes = 0

\* C10 (amended): when the function returns, every edge has been applied as
\* an insertion, and as a removal exactly if its right is below
\* sequence_length; the edges that reach sequence_length are removed only in
\* the out_range of the last next() call, which returns false and whose
\* ranges the loop does not process, so num_children, the running branch
\* length and the internal-node count are those emitted for the last tree.
C10_AllRemovedButLastTree ==
    \A tr \in travs :
        acc[tr].pc = "done" =>
            LET last == hist[tr].calls[Len(hist[tr].calls)]
            IN  /\ InsertedEdges(tr) = Edges
                /\ RemovedEdges(tr) = Edges \ EdgesToEnd
                /\ EdgesToEnd =
                     { ts.indexes_edge_removal_order[q] :
                         q \in last.out_range[0]..(last.out_range[1] - 1) }
                /\ \A n \in 0..(ts.num_nodes - 1) :
                     acc[tr].num_children[n] = OutDegree(EdgesToEnd, n)
                /\ acc[tr].current_tbl = acc[tr].tbl[ts.num_trees - 1]
                /\ IntegerTimes => ScratchTbl(EdgesToEnd) = {acc[tr].current_tbl}
                /\ acc[tr].current_num_internal_nodes =
                     acc[tr].num_internal_nodes[ts.num_trees - 1]
                /\ acc[tr].current_num_internal_nodes = ScratchInternal(EdgesToEnd)

\* A finished traversal that removed two edges and returned with a third,
\* which reaches the end of the genome, still applied.
C10_Witness ==
    /\ acc[1].pc = "done"
    /\ Cardinality(RemovedEdges(1)) = 2
    /\ Cardinality(EdgesToEnd) = 1
    /\ FLt(FZero, acc[1].current_tbl)

\* ------------------------------------------------------------------- C11
\* C11: a next() call returns false exactly when, once the edges entering at
\* its left boundary are consumed, no edge is left to insert (the end of
\* in_range is num_edges) and the left boundary, the right of the interval
\* before, is at or past sequence_length; every other call returns true.
C11_ReturnsFalseExactlyAtEnd ==
    \A tr \in travs : \A c \in Calls(tr) :
        LET call == hist[tr].calls[c]
            before == IF c = 1 THEN 0 ELSE hist[tr].calls[c - 1].interval[1]
        IN  /\ call.interval[0] = before
            /\ call.ret = ~(/\ call.in_range[1] = ts.num_edges
                            /\ before >= ts.sequence_length)

\* A finished traversal: the last call returned false, and a call before it
\* returned true with no edge left to insert, short of the end of the genome.
C11_Witness ==
    /\ acc[1].pc = "done"
    /\ ts.num_edges >= 2
    /\ ~hist[1].calls[Len(hist[1].calls)].ret
    /\ \E c \in Calls(1) :
         /\ hist[1].calls[c].ret
         /\ hist[1].calls[c].in_range[1] = ts.num_edges
         /\ hist[1].calls[c].in_range[0] < hist[1].calls[c].in_range[1]
         /\ hist[1].calls[c].interval[0] < ts.sequence_length
         /\ hist[1].calls[c].interval[1] < ts.sequence_length

\* ------------------------------------------------------------------- C12
NodeIds == 0..(ts.num_nodes - 1)

\* The number of nodes whose current num_children is a.
NodesOfArity(tr, a) == Cardinality({ n \in NodeIds : acc[tr].num_children[n] = a })

\* C12 (as claimed): after each complete edge event, nodes_with_arity[a] is
\* the number of nodes whose num_children is a, for every a in
\* [0, num_nodes), and no entry is negative.
C12_HistogramAsClaimed ==
    \A tr \in travs :
        Len(hist[tr].events) > 0 =>
            \A a \in NodeIds :
                /\ acc[tr].nodes_with_arity[a] = NodesOfArity(tr, a)
                /\ acc[tr].nodes_with_arity[a] >= 0

\* C12 (amended): after each complete edge event, nodes_with_arity[a] is the
\* number of nodes whose num_children is a, for every a in [1, num_nodes);
\* entry 0 is never written and stays 0, whatever the number of childless
\* nodes.  No entry is negative at any point: the bucket that the next
\* removal, or the next insertion under a node that has children, decrements
\* first is at least 1.
C12_HistogramAboveZero ==
    \A tr \in travs :
        /\ \A a \in NodeIds \ {0} :
             acc[tr].nodes_with_arity[a] = NodesOfArity(tr, a)
        /\ acc[tr].nodes_with_arity[0] = 0
        /\ \A a \in NodeIds : acc[tr].nodes_with_arity[a] >= 0
        /\ acc[tr].pc = "out" =>
             LET p == ts.edges_parent[ts.indexes_edge_removal_order[acc[tr].j]]
             IN  /\ acc[tr].num_children[p] >= 1
                 /\ acc[tr].nodes_with_arity[acc[tr].num_children[p]] >= 1
        /\ acc[tr].pc = "in" =>
             LET p == ts.edges_parent[ts.indexes_edge_insertion_order[acc[tr].j]]
             IN  acc[tr].num_children[p] # 0 =>
                    acc[tr].nodes_with_arity[acc[tr].num_children[p]] >= 1

\* A removal has just taken a node from arity 2 to arity 1, where it joined
\* another node: two nodes of arity 1, none of arity 2.
C12_Witness ==
    /\ Len(hist[1].events) > 0
    /\ hist[1].events[Len(hist[1].events)].kind = "out"
    /\ acc[1].nodes_with_arity[1] = 2
    /\ acc[1].nodes_with_arity[2] = 0
    /\ acc[1].max_arity[0] = 2

\* ------------------------------------------------------------------- C13
\* C13: the driving loop terminates: every next() call that returns true sets
\* an interval with left < right, there are never more than num_trees + 1
\* calls, and the traversal reaches the return of _compute_per_tree_stats.
C13_Terminates ==
    /\ [](\A tr \in travs :
            /\ \A c \in Calls(tr) :
                 hist[tr].calls[c].ret =>
                     hist[tr].calls[c].interval[0] < hist[tr].calls[c].interval[1]
            /\ Len(hist[tr].calls) <= ts.num_trees + 1)
    /\ <>(\A tr \in travs : acc[tr].pc = "done")

\* A traversal of three edges that returned after three trees and four calls.
C13_Witness ==
    /\ acc[1].pc = "done"
    /\ ts.num_edges = 3
    /\ Len(hist[1].calls) = 4
    /\ acc[1].tree_index = 3

\* ------------------------------------------------------------------- C14
\* The events of traversal tr, by position in its history.
Events(tr) == 1..Len(hist[tr].events)

\* C14: the removal cursor (the end of out_range) and the insertion cursor
\* (the end of in_range) never decrease and never exceed num_edges; every
\* edge applied as a removal was applied as an insertion before, in the body
\* of a strictly earlier next() call; so num_children[n] is never negative,
\* and the node whose edge is the next to be removed has at least one child.
C14_CursorsAndRemovalOrder ==
    /\ [](\A tr \in travs :
            /\ tree_pos[tr].out_range[1] <= ts.num_edges
            /\ tree_pos[tr].in_range[1] <= ts.num_edges
            /\ \A i \in Events(tr) :
                 hist[tr].events[i].kind = "out" =>
                     \E k \in 1..(i - 1) :
                         /\ hist[tr].events[k].kind = "in"
                         /\ hist[tr].events[k].edge = hist[tr].events[i].edge
                         /\ hist[tr].events[k].call < hist[tr].events[i].call
            /\ \A n \in NodeIds : acc[tr].num_children[n] >= 0
            /\ acc[tr].pc = "out" =>
                 acc[tr].num_children[
                     ts.edges_parent[ts.indexes_edge_removal_order[acc[tr].j]]] >= 1)
    /\ [][\A tr \in travs :
            /\ tree_pos'[tr].out_range[1] >= tree_pos[tr].out_range[1]
            /\ tree_pos'[tr].in_range[1] >= tree_pos[tr].in_range[1]]_vars

\* Two removals have been applied, the second under a later next() call than
\* the first, and both cursors have moved.
C14_Witness ==
    /\ \E i, k \in Events(1) :
         /\ hist[1].events[i].kind = "out"
         /\ hist[1].events[k].kind = "out"
         /\ hist[1].events[i].call < hist[1].events[k].call
    /\ tree_pos[1].out_range[1] = 2
    /\ tree_pos[1].in_range[1] = 3

\* ------------------------------------------------------------------- C15
\* C15: with the outputs sized num_trees, one less than the number of
\* distinct values among 0, sequence_length and the edges' left and right
\* values, and the per-node arrays sized num_nodes, no index is out of
\* bounds: tree_index is below num_trees at every emission, the entries
\* 0 .. num_trees - 1 are written once each, in increasing order, all of them
\* by the time the function returns, and every num_children[p], the index
\* into the histogram, stays within [0, num_nodes).
C15_InBounds ==
    /\ [](\A tr \in travs :
            /\ ts.num_trees =
                 Cardinality({0, ts.sequence_length} \cup EdgeCoordinates) - 1
            /\ DOMAIN acc[tr].tbl = 0..(ts.num_trees - 1)
            /\ DOMAIN acc[tr].nodes_with_arity = NodeIds
            /\ ~acc[tr].fault
            /\ acc[tr].pc = "emit" => acc[tr].tree_index < ts.num_trees
            /\ acc[tr].pc = "done" => acc[tr].tree_index = ts.num_trees
            /\ \A i \in DOMAIN acc[tr].tbl :
                 i >= acc[tr].tree_index =>
                     /\ acc[tr].tbl[i] = FZero
                     /\ acc[tr].num_internal_nodes[i] = 0
                     /\ acc[tr].max_arity[i] = 0
            /\ \A n \in NodeIds : acc[tr].num_children[n] \in NodeIds)
    /\ [][\A tr \in travs :
            /\ acc'[tr].tree_index \in {acc[tr].tree_index, acc[tr].tree_index + 1}
            /\ acc'[tr].tree_index = acc[tr].tree_index =>
                 Outputs(acc'[tr]) = Outputs(acc[tr])
            /\ \A i \in Emitted(tr) :
                 /\ acc'[tr].tbl[i] = acc[tr].tbl[i]
                 /\ acc'[tr].num_internal_nodes[i] = acc[tr].num_internal_nodes[i]
                 /\ acc'[tr].max_arity[i] = acc[tr].max_arity[i]]_vars

\* The last of three trees is about to be written at the last index, and a
\* node has num_nodes - 1 children, the highest index of the histogram.
C15_Witness ==
    /\ acc[1].pc = "emit"
    /\ ts.num_trees = 3
    /\ acc[1].tree_index = 2
    /\ \E n \in NodeIds : acc[1].num_children[n] = ts.num_nodes - 1

====
